---- MODULE Spec2Model ----
(***************************************************************************)
(* Finit: the init state machine (src/src/sm.c) and the .conf change set   *)
(* of the configuration monitor (src/src/conf.c).                          *)
(*                                                                         *)
(* One action per handler run of sm_step()'s restart loop, one per         *)
(* request setter, one per inotify event handed to do_change().            *)
(***************************************************************************)
EXTENDS Integers, Sequences, FiniteSets, TLC

(* ------------------------------------------------------------------ *)
(* Bounds of the model                                                 *)
(* ------------------------------------------------------------------ *)

\* sm_set_runlevel() is called with levels in -NegLevelArg .. MaxLevelArg
NegLevelArg == 2
MaxLevelArg == 10

(* ------------------------------------------------------------------ *)
(* Program constants                                                   *)
(* ------------------------------------------------------------------ *)

\* highest runlevel accepted by the running state
MaxRunlevel == 9
\* "no request": the value sm_init() and the handlers store in newlevel
NoLevel == -1

\* levels 3, 4, 5, 7 and 8 take the same branches as 2 and 9 everywhere in sm.c
LevelArgs == ((0 - NegLevelArg)..(0 - 1)) \cup {0, 1, 2, 6} \cup (MaxRunlevel..MaxLevelArg)

\* basenames the three watchers can report
Basenames == {"finit.conf", "a.conf"}

\* inotify event bits of the watch mask (IN_MOVE = IN_MOVED_FROM | IN_MOVED_TO)
WatchMask == {"IN_CREATE", "IN_DELETE", "IN_MODIFY", "IN_ATTRIB",
              "IN_MOVED_FROM", "IN_MOVED_TO"}
\* an event carries one event bit
EventMasks == {{b} : b \in WatchMask}

\* the events that report a file as present, and those that report it gone
InsertBits == {"IN_CREATE", "IN_MODIFY", "IN_ATTRIB", "IN_MOVED_TO"}
RemoveBits == {"IN_DELETE", "IN_MOVED_FROM"}
EventClass(mask) ==
    IF mask \cap RemoveBits # {} THEN "remove"
    ELSE IF mask \cap InsertBits # {} THEN "insert"
    ELSE "other"

VARIABLES
    state,            \* sm->state
    newlevel,         \* sm->newlevel
    reload,           \* sm->reload
    in_teardown,      \* sm->in_teardown
    runlevel,         \* global runlevel
    prevlevel,        \* global prevlevel
    pc,               \* "idle": outside sm_step(); "restart": at the restart label
    stopping,         \* svc_stop_completed() would return a service
    nologin_file,     \* /etc/nologin exists
    conf_change_list, \* TAILQ of changed basenames, head first
    calls,            \* collaborator calls of the transition in progress
    path,             \* states visited by the transition in progress
    rested,           \* sm_step() has returned and no input changed since
    lastev,           \* per basename: most recent event since the last drain
    nhandlers,        \* handler runs of the sm_step() call in progress
    files,            \* the configuration files on disk: name -> lines, or NoFile
    hostname,         \* global hostname
    network,          \* global network
    runparts,         \* global runparts
    sdown,            \* global sdown
    cfglevel,         \* global cfglevel
    svcs,             \* the service registry: name -> "none", "ok" or "marked"
    parse_pos,        \* lines of the root config read by the parse in progress
    rl_in,            \* conf_parse_runlevels(): the argument
    rl_i,             \* conf_parse_runlevels(): i
    rl_not,           \* conf_parse_runlevels(): not
    rl_mask,          \* conf_parse_runlevels(): bitmask, as the set of its bits
    rl_pc,            \* conf_parse_runlevels(): "off", "loop" or "done"
    rlim_line,        \* conf_parse_rlimit(): the line, as its tokens
    rlim_arr,         \* conf_parse_rlimit(): arr[]
    rlim_pc,          \* conf_parse_rlimit(): "off", "call" or "done"
    inc_stack,        \* parse_conf(): its frames on the stack, [file, pos], innermost last
    inc_pc,           \* parse_conf(): "off", "run", "rcsd", "done" or "overflow"
    global_rlimit,    \* global_rlimit[]
    os_rlimit,        \* the limits of the process, as getrlimit() reports them
    want_rlimit,      \* the limits read first, changed by every rlimit line since
    handed            \* per drop-in: the vectors handed to the entities it registers

parservars == <<files, hostname, network, runparts, sdown, cfglevel, svcs, parse_pos>>

incvars == <<inc_stack, inc_pc, global_rlimit, os_rlimit, want_rlimit, handed>>

fnvars == <<rl_in, rl_i, rl_not, rl_mask, rl_pc, rlim_line, rlim_arr, rlim_pc, incvars>>

vars == <<state, newlevel, reload, in_teardown, runlevel, prevlevel, pc,
          stopping, nologin_file, conf_change_list, calls, path, rested,
          lastev, nhandlers, parservars, fnvars>>

smvars == <<state, newlevel, reload, in_teardown, runlevel, prevlevel>>

\* everything the state machine, the monitor and their history are made of
machinevars == <<smvars, pc, stopping, nologin_file, conf_change_list, calls,
                 path, rested, lastev, nhandlers>>

(* ------------------------------------------------------------------ *)
(* Helpers                                                             *)
(* ------------------------------------------------------------------ *)

\* one collaborator call, with the value of sm->in_teardown it is made under
C(fn, arg, td) == [fn |-> fn, arg |-> arg, td |-> td]

Idx(s) == 1..Len(s)
Count(s, fn) == Cardinality({i \in Idx(s) : s[i].fn = fn})

NoEvent == [ev |-> "none", rc |-> 0]

(* ------------------------------------------------------------------ *)
(* conf.c: the change set                                              *)
(* ------------------------------------------------------------------ *)

\* string_compare(): the two strings are equal
string_compare(a, b) == a = b

\* conf_find(): index of the first node whose name is file, 0 for NULL
conf_find(list, file) ==
    IF \E i \in Idx(list) : string_compare(list[i], file)
    THEN CHOOSE i \in Idx(list) :
            /\ string_compare(list[i], file)
            /\ \A j \in 1..(i - 1) : ~string_compare(list[j], file)
    ELSE 0

\* drop_change(): unlink the node, nothing for NULL
drop_change(list, node) ==
    IF node = 0
    THEN list
    ELSE SubSeq(list, 1, node - 1) \o SubSeq(list, node + 1, Len(list))

\* drop_changes(): drop every node of the list
RECURSIVE drop_changes(_)
drop_changes(list) ==
    IF list = <<>> THEN list ELSE drop_changes(drop_change(list, 1))

\* do_change(): the list after the event, and the return code
do_change_list_delete_only(list, name, mask, alloc_ok) ==
    LET node == conf_find(list, name)
    IN  IF mask \cap {"IN_DELETE"} # {}
        THEN drop_change(list, node)
        ELSE IF node # 0
             THEN list
             ELSE IF ~alloc_ok
                  THEN list
                  ELSE <<name>> \o list

do_change_list(list, name, mask, alloc_ok) ==
    LET node == conf_find(list, name)
    IN  IF mask \cap {"IN_DELETE", "IN_MOVED_FROM"} # {}
        THEN drop_change(list, node)
        ELSE IF node # 0
             THEN list
             ELSE IF ~alloc_ok
                  THEN list
                  ELSE <<name>> \o list

do_change_rc(list, name, mask, alloc_ok) ==
    LET node == conf_find(list, name)
    IN  IF mask \cap {"IN_DELETE", "IN_MOVED_FROM"} # {}
        THEN 0
        ELSE IF node # 0
             THEN 0
             ELSE IF ~alloc_ok THEN 1 ELSE 0

\* a path is a sequence of tokens, "/" separating the components; NullPath is NULL
NullPath == <<"NULL">>

\* strrchr(file, '/'): index of the last "/", 0 when there is none
strrchr_slash(file) ==
    IF \E i \in Idx(file) : file[i] = "/"
    THEN CHOOSE i \in Idx(file) :
            /\ file[i] = "/"
            /\ \A j \in (i + 1)..Len(file) : file[j] # "/"
    ELSE 0

\* the text of a token sequence without "/": one component or the empty string
Text(toks) == IF toks = <<>> THEN "" ELSE toks[1]

\* conf_changed()
conf_changed(list, file) ==
    IF file = NullPath
    THEN FALSE
    ELSE LET ptr  == strrchr_slash(file)
             base == IF ptr # 0
                     THEN Text(SubSeq(file, ptr + 1, Len(file)))
                     ELSE Text(file)
         IN  conf_find(list, base) # 0

\* conf_any_change(): the change list is not empty
conf_any_change(list) == list # <<>>

\* conf_reload(), its effect on the change list: with scandir() failing it
\* returns before drop_changes()
conf_reload_list(list, scandir_ok) ==
    IF ~scandir_ok THEN list ELSE drop_changes(list)

\* the record of events per basename is restarted by a drain
conf_reload_lastev(lev, scandir_ok) ==
    IF ~scandir_ok THEN lev ELSE [b \in Basenames |-> NoEvent]

\* conf_cb() -> do_change(): one inotify event for one basename
DoChangeOf(name, mask, alloc_ok) ==
    /\ pc = "idle"
    /\ conf_change_list' = do_change_list(conf_change_list, name, mask, alloc_ok)
    /\ lastev' = [lastev EXCEPT ![name] =
                     [ev |-> EventClass(mask),
                      rc |-> do_change_rc(conf_change_list, name, mask, alloc_ok)]]
    /\ UNCHANGED <<smvars, pc, stopping, nologin_file, calls, path, rested>>
    /\ UNCHANGED <<nhandlers, parservars, fnvars>>

DoChange ==
    \E name \in Basenames, mask \in EventMasks, alloc_ok \in BOOLEAN :
       DoChangeOf(name, mask, alloc_ok)


(* ------------------------------------------------------------------ *)
(* conf.c: the parser                                                  *)
(* ------------------------------------------------------------------ *)

\* the fallback of `runlevel` on a parse error (config.h)
RUNLEVEL == 2

\* the root config, a file it may include, and the one drop-in of rcsd
FINIT_CONF == "/etc/finit.conf"
IncFile == "/etc/inc.conf"
DropIn == "/etc/finit.d/a.conf"
FileNames == {FINIT_CONF, IncFile, DropIn}
\* scandir(rcsd, alphasort): the entries of rcsd that end in .conf, in order
RcsdEntries == <<DropIn>>

\* a file that does not exist
NoFile == [exists |-> FALSE, lines |-> <<>>]
File(lines) == [exists |-> TRUE, lines |-> lines]

\* a line after MATCH_CMD() and strip_line(): the verb, its argument, and for
\* a numeric argument the characters of the token
Line(verb, arg) == [verb |-> verb, arg |-> arg, tok |-> <<>>, rlim |-> <<>>]
NumLine(verb, tok) == [verb |-> verb, arg |-> "", tok |-> tok, rlim |-> <<>>]
\* an rlimit line, with the tokens conf_parse_rlimit() is given
RlimitLine(level, limit, val) ==
    [verb |-> "rlimit", arg |-> "", tok |-> <<>>, rlim |-> <<level, limit, val>>]

\* services the configuration files can declare
ServiceNames == {"foo", "bar"}

\* a NULL string
NullStr == "NULL"
\* DEFHOST, the hostname set by conf_init()
DEFHOST == "noname"

Digits == {"0", "1", "2", "3", "4", "5", "6", "7", "8", "9"}
DigitVal(c) ==
    CASE c = "0" -> 0 [] c = "1" -> 1 [] c = "2" -> 2 [] c = "3" -> 3
      [] c = "4" -> 4 [] c = "5" -> 5 [] c = "6" -> 6 [] c = "7" -> 7
      [] c = "8" -> 8 [] c = "9" -> 9

\* the value of a non-empty sequence of digits
RECURSIVE DecVal(_)
DecVal(ds) ==
    IF ds = <<>> THEN 0
    ELSE 10 * DecVal(SubSeq(ds, 1, Len(ds) - 1)) + DigitVal(ds[Len(ds)])

\* a sequence of digits without its leading zeros; a number is kept as its
\* decimal digits, whatever its size
RECURSIVE Normalize(_)
Normalize(ds) ==
    IF Len(ds) > 1 /\ ds[1] = "0" THEN Normalize(Tail(ds)) ELSE ds

\* a <= b for two normalized sequences of digits
RECURSIVE DigitsLeq(_, _)
DigitsLeq(a, b) ==
    IF Len(a) # Len(b) THEN Len(a) < Len(b)
    ELSE IF a = <<>> THEN TRUE
    ELSE IF a[1] # b[1] THEN DigitVal(a[1]) < DigitVal(b[1])
    ELSE DigitsLeq(Tail(a), Tail(b))

\* strtonum(tok, minval, maxval, &err), for minval >= 0: an optional sign and
\* digits, the value within [minval, maxval]; 0 and err set otherwise
strtonum(tok, minval, maxval) ==
    LET signed == tok # <<>> /\ tok[1] \in {"-", "+"}
        ds     == IF signed THEN Tail(tok) ELSE tok
        ok     == ds # <<>> /\ \A i \in 1..Len(ds) : ds[i] \in Digits
        v      == IF ok THEN Normalize(ds) ELSE <<"0">>
        below  == (ok /\ tok[1] = "-" /\ v # <<"0">>) \/ ~DigitsLeq(minval, v)
    IN  IF ~ok \/ below \/ ~DigitsLeq(v, maxval)
        THEN [val |-> <<"0">>, err |-> TRUE]
        ELSE [val |-> v, err |-> FALSE]

\* parse_static(), `runlevel <token>`: the new cfglevel
parse_runlevel_allow_reboot(tok) ==
    LET r  == strtonum(tok, <<"1">>, <<"9">>)
        c1 == IF r.err THEN RUNLEVEL ELSE DecVal(r.val)
    IN  IF c1 < 1 \/ c1 > 9 THEN 2 ELSE c1

parse_runlevel(tok) ==
    LET r  == strtonum(tok, <<"1">>, <<"9">>)
        c1 == IF r.err THEN RUNLEVEL ELSE DecVal(r.val)
    IN  IF c1 < 1 \/ c1 > 9 \/ c1 = 6 THEN 2 ELSE c1

\* BOOTSTRAP
BOOTSTRAP_always(rl) == TRUE

BOOTSTRAP(rl) == rl = 0

\* what a parse works on: the settings, the registry, and the commands run
\* with run_interactive()
ParseState(h, n, r, sd, cl, sv) ==
    [hostname |-> h, network |-> n, runparts |-> r, sdown |-> sd,
     cfglevel |-> cl, svcs |-> sv, cmds |-> <<>>]

\* service_register(): the service is registered and no longer marked
service_register(sv, name) == [sv EXCEPT ![name] = "ok"]

\* svc_mark_dynamic(): every registered service becomes a candidate for removal
svc_mark_dynamic(sv) == [n \in DOMAIN sv |-> IF sv[n] = "none" THEN "none" ELSE "marked"]

\* svc_clean_dynamic(service_unregister): every service still marked is
\* unregistered
svc_clean_dynamic(sv) == [n \in DOMAIN sv |-> IF sv[n] = "marked" THEN "none" ELSE sv[n]]

\* parse_dynamic(); rl is the runlevel at the time of the parse
parse_dynamic(line, P, rl) ==
    IF line.verb = "#" THEN P
    ELSE IF line.verb = "module"
    THEN IF rl # 0 THEN P ELSE [P EXCEPT !.cmds = Append(@, "modprobe")]
    ELSE IF line.verb \in {"service", "task", "run"}
    THEN [P EXCEPT !.svcs = service_register(@, line.arg)]
    ELSE P

RECURSIVE parse_conf(_, _, _, _)
RECURSIVE parse_lines(_, _, _, _)

\* parse_static(); fs are the files on disk
parse_static(line, P, rl, fs) ==
    IF BOOTSTRAP(rl) /\ line.verb = "host"
    THEN [P EXCEPT !.hostname = line.arg]
    ELSE IF BOOTSTRAP(rl) /\ line.verb = "mknod"
    THEN [P EXCEPT !.cmds = Append(@, "mknod")]
    ELSE IF BOOTSTRAP(rl) /\ line.verb = "network"
    THEN [P EXCEPT !.network = line.arg]
    ELSE IF BOOTSTRAP(rl) /\ line.verb = "runparts"
    THEN [P EXCEPT !.runparts = line.arg]
    ELSE IF line.verb = "include"
    THEN IF ~fs[line.arg].exists THEN P ELSE parse_conf(line.arg, P, rl, fs)
    ELSE IF line.verb = "shutdown"
    THEN [P EXCEPT !.sdown = line.arg]
    ELSE IF BOOTSTRAP(rl) /\ line.verb = "runlevel"
    THEN [P EXCEPT !.cfglevel = parse_runlevel(line.tok)]
    ELSE P

\* the loop of parse_conf(): parse_static() then parse_dynamic() per line
parse_lines(lines, P, rl, fs) ==
    IF lines = <<>> THEN P
    ELSE parse_lines(Tail(lines),
                     parse_dynamic(Head(lines), parse_static(Head(lines), P, rl, fs), rl),
                     rl, fs)

\* parse_conf(); it recurses through include lines, so it is defined for
\* files whose include lines form no cycle
parse_conf(file, P, rl, fs) ==
    IF ~fs[file].exists THEN P ELSE parse_lines(fs[file].lines, P, rl, fs)

\* parse_conf_dynamic(): parse_dynamic() per line of a drop-in
RECURSIVE parse_conf_dynamic(_, _, _)
parse_conf_dynamic(lines, P, rl) ==
    IF lines = <<>> THEN P
    ELSE parse_conf_dynamic(Tail(lines), parse_dynamic(Head(lines), P, rl), rl)

\* the loop of conf_reload() over the entries of rcsd
RECURSIVE parse_rcsd(_, _, _, _)
parse_rcsd(entries, P, rl, fs) ==
    IF entries = <<>> THEN P
    ELSE parse_rcsd(Tail(entries),
                    IF fs[Head(entries)].exists
                    THEN parse_conf_dynamic(fs[Head(entries)].lines, P, rl)
                    ELSE P,
                    rl, fs)

\* conf_reload(), its effect on settings and registry: mark, parse the root
\* config, then the drop-ins unless scandir() fails. /etc/hostname is taken
\* to be absent, so that set_hostname() keeps the parsed hostname.
conf_reload(P, rl, fs, scandir_ok) ==
    LET marked == [P EXCEPT !.svcs = svc_mark_dynamic(@)]
        root   == parse_conf(FINIT_CONF, marked, rl, fs)
    IN  IF ~scandir_ok THEN root ELSE parse_rcsd(RcsdEntries, root, rl, fs)

\* the state of the parser as a ParseState, and back
CurrentParseState ==
    ParseState(hostname, network, runparts, sdown, cfglevel, svcs)

StoreParseState(P) ==
    /\ hostname' = P.hostname
    /\ network' = P.network
    /\ runparts' = P.runparts
    /\ sdown' = P.sdown
    /\ cfglevel' = P.cfglevel
    /\ svcs' = P.svcs

\* the run_interactive() calls of a parse, placed after the conf_reload entry
RECURSIVE WithParseCmds(_, _, _)
WithParseCmds(cs, cmds, td) ==
    IF cs = <<>> THEN <<>>
    ELSE IF Head(cs).fn = "conf_reload"
         THEN <<Head(cs)>> \o [i \in 1..Len(cmds) |-> C("run_interactive", cmds[i], td)]
                 \o Tail(cs)
         ELSE <<Head(cs)>> \o WithParseCmds(Tail(cs), cmds, td)

\* the handler called svc_clean_dynamic(service_unregister)
CleanIfCalled(cs, sv) ==
    IF \E i \in 1..Len(cs) : cs[i].fn = "svc_clean_dynamic"
    THEN svc_clean_dynamic(sv)
    ELSE sv

(* ------------------------------------------------------------------ *)
(* sm.c: the state machine                                             *)
(* ------------------------------------------------------------------ *)

\* no call of conf_parse_runlevels() or conf_parse_rlimit() is in progress
RlOff ==
    /\ rl_in = <<>>
    /\ rl_i = 0
    /\ rl_not = FALSE
    /\ rl_mask = {}
    /\ rl_pc = "off"

RlimOff ==
    /\ rlim_line = <<>>
    /\ rlim_arr = <<>>
    /\ rlim_pc = "off"

\* no stepwise parse_conf() is in progress
IncOff ==
    /\ inc_stack = <<>>
    /\ inc_pc = "off"
    /\ global_rlimit = <<>>
    /\ os_rlimit = <<>>
    /\ want_rlimit = <<>>
    /\ handed = <<>>

FnOff == RlOff /\ RlimOff /\ IncOff

\* sm_init(); runlevel is 0 during bootstrap, prevlevel is not yet set
InitSm ==
    /\ state = "bootstrap"
    /\ newlevel = NoLevel
    /\ reload = FALSE
    /\ in_teardown = FALSE
    /\ runlevel = 0
    /\ prevlevel = NoLevel
    /\ pc = "idle"
    /\ stopping = FALSE
    /\ nologin_file \in BOOLEAN
    /\ conf_change_list = <<>>
    /\ calls = <<>>
    /\ path = <<"bootstrap">>
    /\ rested = FALSE
    /\ lastev = [b \in Basenames |-> NoEvent]
    /\ nhandlers = 0

\* conf_init(): the settings before any file is parsed; no file exists yet
InitConf ==
    /\ files = [f \in FileNames |-> NoFile]
    /\ hostname = DEFHOST
    /\ network = NullStr
    /\ runparts = NullStr
    /\ sdown = NullStr
    /\ cfglevel = RUNLEVEL
    /\ svcs = [n \in ServiceNames |-> "none"]
    /\ parse_pos = 0

Init == InitSm /\ InitConf /\ FnOff

\* sm_set_runlevel()
SetRunlevelTo(lvl) ==
    /\ pc = "idle"
    /\ newlevel' = lvl
    /\ rested' = (rested /\ lvl = newlevel)
    /\ UNCHANGED <<state, reload, in_teardown, runlevel, prevlevel, pc, stopping,
                   nologin_file, conf_change_list, calls, path, lastev>>
    /\ UNCHANGED <<nhandlers, parservars, fnvars>>

SetRunlevel == \E lvl \in LevelArgs : SetRunlevelTo(lvl)

\* sm_set_reload()
SetReload ==
    /\ pc = "idle"
    /\ reload' = TRUE
    /\ rested' = (rested /\ reload)
    /\ UNCHANGED <<state, newlevel, in_teardown, runlevel, prevlevel, pc, stopping,
                   nologin_file, conf_change_list, calls, path, lastev>>
    /\ UNCHANGED <<nhandlers, parservars, fnvars>>

\* the registry collects the last stopping service: svc_stop_completed()
\* returns NULL from now on
ServiceExit ==
    /\ pc = "idle"
    /\ stopping
    /\ stopping' = FALSE
    /\ rested' = FALSE
    /\ UNCHANGED <<smvars, pc, nologin_file, conf_change_list, calls, path, lastev>>
    /\ UNCHANGED <<nhandlers, parservars, fnvars>>

\* sm_step() is called: control reaches the restart label
SmStep ==
    /\ pc = "idle"
    /\ pc' = "restart"
    /\ UNCHANGED <<smvars, stopping, nologin_file, conf_change_list, calls, path,
                   rested, lastev>>
    /\ UNCHANGED <<nhandlers, parservars, fnvars>>

\* the end of one pass through the switch: restart when the state changed,
\* return otherwise
AfterSwitch_no_restart ==
    /\ pc' = "idle"
    /\ rested' = (state' = state)
    /\ nhandlers' = IF state' # state THEN nhandlers + 1 ELSE 0
    /\ UNCHANGED fnvars

AfterSwitch ==
    /\ pc' = IF state' # state THEN "restart" ELSE "idle"
    /\ rested' = (state' = state)
    /\ nhandlers' = IF state' # state THEN nhandlers + 1 ELSE 0
    /\ UNCHANGED fnvars

\* the running state accepts a level in 0..9
ValidLevel_no_upper(lvl) == lvl >= 0

ValidLevel(lvl) == lvl >= 0 /\ lvl <= MaxRunlevel

\* runlevel 0 (halt) and 6 (reboot)
IsShutdown_halt_only(lvl) == lvl = 0

IsShutdown(lvl) == lvl = 0 \/ lvl = 6

\* nologin(): the calls it makes and what is left of /etc/nologin
nologin_calls_no_reboot(rl, pl, td) ==
    (IF rl = 1 \/ rl = 0 THEN <<C("touch", "/etc/nologin", td)>> ELSE <<>>)
    \o (IF pl = 1 \/ pl = 0 THEN <<C("erase", "/etc/nologin", td)>> ELSE <<>>)

nologin_calls(rl, pl, td) ==
    (IF rl = 1 \/ rl = 0 \/ rl = 6 THEN <<C("touch", "/etc/nologin", td)>> ELSE <<>>)
    \o (IF pl = 1 \/ pl = 0 \/ pl = 6 THEN <<C("erase", "/etc/nologin", td)>> ELSE <<>>)

nologin_result(rl, pl, exists) ==
    LET touched == IF rl = 1 \/ rl = 0 \/ rl = 6 THEN TRUE ELSE exists
    IN  IF pl = 1 \/ pl = 0 \/ pl = 6 THEN FALSE ELSE touched

\* case SM_BOOTSTRAP_STATE
Bootstrap ==
    /\ pc = "restart"
    /\ state = "bootstrap"
    /\ calls' = calls \o <<C("service_step_all", "RUN|TASK|SERVICE", in_teardown)>>
    /\ state' = "running"
    /\ path' = Append(path, "running")
    /\ AfterSwitch
    /\ UNCHANGED <<newlevel, reload, in_teardown, runlevel, prevlevel, stopping,
                   nologin_file, conf_change_list, lastev, parservars>>

\* running, the request is for the current runlevel: it is dropped
RunningSameLevel_keep ==
    UNCHANGED <<newlevel, state, reload>>

RunningSameLevel_drop_reload ==
    /\ newlevel' = NoLevel
    /\ reload' = FALSE
    /\ UNCHANGED state

RunningSameLevel ==
    /\ newlevel' = NoLevel
    /\ UNCHANGED <<state, reload>>

\* case SM_RUNNING_STATE; a transition that starts here starts a new record
\* of calls and of visited states
Running ==
    /\ pc = "restart"
    /\ state = "running"
    /\ IF ValidLevel(newlevel)
       THEN IF runlevel = newlevel
            THEN RunningSameLevel
            ELSE /\ state' = "runlevel_change"
                 /\ UNCHANGED <<newlevel, reload>>
       ELSE IF reload
            THEN /\ reload' = FALSE
                 /\ state' = "reload_change"
                 /\ UNCHANGED newlevel
            ELSE UNCHANGED <<state, newlevel, reload>>
    /\ calls' = IF state' # state THEN <<>> ELSE calls
    /\ path' = IF state' # state THEN <<"running", state'>> ELSE path
    /\ AfterSwitch
    /\ UNCHANGED <<in_teardown, runlevel, prevlevel, stopping, nologin_file,
                   conf_change_list, lastev, parservars>>

\* the calls of the runlevel_change handler, in order; rl and pl are the
\* committed runlevel and prevlevel, any is conf_any_change(), td is
\* sm->in_teardown on entry
runlevel_change_calls(rl, pl, any, td) ==
    (IF IsShutdown(rl)
     THEN <<C("log_exit", "", td), C("plugin_run_hooks", "HOOK_SHUTDOWN", td)>>
     ELSE <<>>)
    \o <<C("runlevel_set", "", td)>>
    \o nologin_calls(rl, pl, td)
    \o (IF any THEN <<C("conf_reload", "", td)>> ELSE <<>>)
    \o <<C("service_runtask_clean", "", td),
         C("service_step_all", "ANY", TRUE)>>

\* case SM_RUNLEVEL_CHANGE_STATE
RunlevelChange ==
    /\ pc = "restart"
    /\ state = "runlevel_change"
    /\ \E scandir_ok \in BOOLEAN, stop \in BOOLEAN :
          LET pl  == runlevel
              rl  == newlevel
              any == conf_any_change(conf_change_list)
              P   == IF any THEN conf_reload(CurrentParseState, rl, files, scandir_ok)
                     ELSE CurrentParseState
          IN  /\ StoreParseState(P)
              /\ prevlevel' = pl
              /\ runlevel' = rl
              /\ newlevel' = NoLevel
              /\ nologin_file' = nologin_result(rl, pl, nologin_file)
              /\ conf_change_list' =
                    IF any THEN conf_reload_list(conf_change_list, scandir_ok)
                    ELSE conf_change_list
              /\ lastev' = IF any THEN conf_reload_lastev(lastev, scandir_ok) ELSE lastev
              /\ in_teardown' = TRUE
              /\ calls' = calls \o WithParseCmds(runlevel_change_calls(rl, pl, any, in_teardown),
                                                   P.cmds, in_teardown)
              /\ stopping' = (stopping \/ stop)
    /\ state' = "runlevel_wait"
    /\ path' = Append(path, "runlevel_wait")
    /\ AfterSwitch
    /\ UNCHANGED <<reload, files, parse_pos>>

\* what the two wait handlers never write
WaitKeeps_clear ==
    /\ newlevel' = NoLevel
    /\ UNCHANGED <<reload, runlevel, prevlevel>>

WaitKeeps ==
    UNCHANGED <<newlevel, reload, runlevel, prevlevel>>

\* the calls of the runlevel_wait handler once svc_stop_completed() returned
\* NULL, in order; td is sm->in_teardown on entry
runlevel_wait_calls_late_hook(rl, pl, td) ==
    <<C("svc_stop_completed", "NULL", td),
      C("service_step_all", "ANY", FALSE),
      C("plugin_run_hooks", "HOOK_RUNLEVEL_CHANGE", FALSE),
      C("svc_clean_dynamic", "", FALSE)>>
    \o (IF IsShutdown(rl)
        THEN <<C("do_shutdown", "", FALSE)>>
        ELSE IF pl > 0 THEN <<C("tty_runlevel", "", FALSE)>> ELSE <<>>)

runlevel_wait_calls_tty_always(rl, pl, td) ==
    <<C("svc_stop_completed", "NULL", td),
      C("plugin_run_hooks", "HOOK_RUNLEVEL_CHANGE", td),
      C("service_step_all", "ANY", FALSE),
      C("svc_clean_dynamic", "", FALSE)>>
    \o (IF IsShutdown(rl)
        THEN <<C("do_shutdown", "", FALSE)>>
        ELSE IF pl >= 0 THEN <<C("tty_runlevel", "", FALSE)>> ELSE <<>>)

runlevel_wait_calls(rl, pl, td) ==
    <<C("svc_stop_completed", "NULL", td),
      C("plugin_run_hooks", "HOOK_RUNLEVEL_CHANGE", td),
      C("service_step_all", "ANY", FALSE),
      C("svc_clean_dynamic", "", FALSE)>>
    \o (IF IsShutdown(rl)
        THEN <<C("do_shutdown", "", FALSE)>>
        ELSE IF pl > 0 THEN <<C("tty_runlevel", "", FALSE)>> ELSE <<>>)

\* case SM_RUNLEVEL_WAIT_STATE
RunlevelWait ==
    /\ pc = "restart"
    /\ state = "runlevel_wait"
    /\ IF stopping
       THEN UNCHANGED <<state, in_teardown, calls, path>>
       ELSE /\ in_teardown' = FALSE
            /\ calls' = calls \o runlevel_wait_calls(runlevel, prevlevel, in_teardown)
            /\ state' = "running"
            /\ path' = Append(path, "running")
    /\ svcs' = CleanIfCalled(SubSeq(calls', Len(calls) + 1, Len(calls')), svcs)
    /\ AfterSwitch
    /\ WaitKeeps
    /\ UNCHANGED <<stopping, nologin_file, conf_change_list, lastev>>
    /\ UNCHANGED <<files, hostname, network, runparts, sdown, cfglevel, parse_pos>>

\* the calls of the reload_change handler, in order
reload_change_calls_step_before_teardown(td) ==
    <<C("conf_reload", "", td),
      C("cond_reload", "", td),
      C("service_step_all", "SERVICE|INETD", td),
      C("tty_reload", "NULL", TRUE)>>

reload_change_calls(td) ==
    <<C("conf_reload", "", td),
      C("cond_reload", "", TRUE),
      C("service_step_all", "SERVICE|INETD", TRUE),
      C("tty_reload", "NULL", TRUE)>>

\* case SM_RELOAD_CHANGE_STATE
ReloadChange ==
    /\ pc = "restart"
    /\ state = "reload_change"
    /\ \E scandir_ok \in BOOLEAN, stop \in BOOLEAN :
          LET P == conf_reload(CurrentParseState, runlevel, files, scandir_ok)
          IN  /\ StoreParseState(P)
              /\ conf_change_list' = conf_reload_list(conf_change_list, scandir_ok)
              /\ lastev' = conf_reload_lastev(lastev, scandir_ok)
              /\ stopping' = (stopping \/ stop)
              /\ calls' = calls \o WithParseCmds(reload_change_calls(in_teardown),
                                                   P.cmds, in_teardown)
    /\ in_teardown' = TRUE
    /\ state' = "reload_wait"
    /\ path' = Append(path, "reload_wait")
    /\ AfterSwitch
    /\ UNCHANGED <<newlevel, reload, runlevel, prevlevel, nologin_file, files, parse_pos>>

\* the calls of the reload_wait handler once svc_stop_completed() returned
\* NULL, in order
reload_wait_calls_no_clean(td) ==
    <<C("svc_stop_completed", "NULL", td),
      C("service_step_all", "SERVICE|INETD", FALSE),
      C("plugin_run_hooks", "HOOK_SVC_RECONF", FALSE),
      C("service_step_all", "SERVICE|INETD", FALSE)>>

reload_wait_calls(td) ==
    <<C("svc_stop_completed", "NULL", td),
      C("svc_clean_dynamic", "", FALSE),
      C("service_step_all", "SERVICE|INETD", FALSE),
      C("plugin_run_hooks", "HOOK_SVC_RECONF", FALSE),
      C("service_step_all", "SERVICE|INETD", FALSE)>>

\* case SM_RELOAD_WAIT_STATE
ReloadWait ==
    /\ pc = "restart"
    /\ state = "reload_wait"
    /\ IF stopping
       THEN UNCHANGED <<state, in_teardown, calls, path>>
       ELSE /\ in_teardown' = FALSE
            /\ calls' = calls \o reload_wait_calls(in_teardown)
            /\ state' = "running"
            /\ path' = Append(path, "running")
    /\ svcs' = CleanIfCalled(SubSeq(calls', Len(calls) + 1, Len(calls')), svcs)
    /\ AfterSwitch
    /\ WaitKeeps
    /\ UNCHANGED <<stopping, nologin_file, conf_change_list, lastev>>
    /\ UNCHANGED <<files, hostname, network, runparts, sdown, cfglevel, parse_pos>>

Handler ==
    \/ Bootstrap
    \/ Running
    \/ RunlevelChange
    \/ RunlevelWait
    \/ ReloadChange
    \/ ReloadWait

Next ==
    \/ SetRunlevel
    \/ SetReload
    \/ ServiceExit
    \/ DoChange
    \/ SmStep
    \/ Handler

Spec == Init /\ [][Next]_vars

(* ------------------------------------------------------------------ *)
(* conf.c: conf_parse_runlevels()                                      *)
(* ------------------------------------------------------------------ *)

\* longest argument drawn from the alphabet
MaxLen == 4
\* bytes read past the terminator of the argument before a NUL is met
MaxGarbage == 2

NUL == "NUL"
Alphabet == {"[", "]", "!", "3", "S", "x"}
RECURSIVE Strings(_)
Strings(n) ==
    IF n = 0 THEN {<<>>}
    ELSE Strings(n - 1) \cup {Append(t, c) : t \in {u \in Strings(n - 1) : Len(u) = n - 1}, c \in Alphabet}

\* a NULL argument
NullArg == <<"NULL">>
DefaultRunlevels == <<"[", "2", "3", "4", "]">>
RlExamples ==
    {DefaultRunlevels,
     <<"[", "!", "3", "4", "5", "]">>,
     <<"[", "!", "3", "!", "4", "]">>,
     <<"[", "s", "9", "]">>}
RlInputs == Strings(MaxLen) \cup RlExamples \cup {NullArg}

\* the character codes the loop computes with
Ord(c) ==
    CASE c \in Digits -> 48 + DigitVal(c)
      [] c = "!" -> 33
      [] c = "S" -> 83
      [] c = "[" -> 91
      [] c = "]" -> 93
      [] c = "s" -> 115
      [] c = "x" -> 120
      [] c = NUL -> 0

\* if (!runlevels) runlevels = "[234]"
RlString(arg) == IF arg = NullArg THEN DefaultRunlevels ELSE arg

\* 0x3FE, the mask a '!' starts from
NegationUniverse_with_halt == 0..9

NegationUniverse == 1..9

\* runlevels[i]: a character of the string, its terminator, or whatever lies
\* behind the terminator
RlRead(str, i) ==
    IF i < Len(str) THEN {str[i + 1]}
    ELSE IF i = Len(str) THEN {NUL}
    ELSE IF i - Len(str) > MaxGarbage THEN {NUL}
    ELSE Alphabet \cup {NUL}

\* conf_parse_runlevels() is called
RlCall ==
    /\ rl_pc = "call"
    /\ rl_i' = 1
    /\ rl_not' = FALSE
    /\ rl_mask' = {}
    /\ rl_pc' = "loop"
    /\ UNCHANGED rl_in

\* one iteration of the loop of conf_parse_runlevels()
RlStep ==
    /\ rl_pc = "loop"
    /\ \E lvl \in RlRead(RlString(rl_in), rl_i) :
          LET c     == IF lvl = "s" \/ lvl = "S" THEN "0" ELSE lvl
              level == Ord(c) - Ord("0")
          IN  /\ rl_i' = rl_i + 1
              /\ IF lvl = "]" \/ lvl = NUL
                 THEN /\ rl_pc' = "done"
                      /\ UNCHANGED <<rl_not, rl_mask>>
                 ELSE IF lvl = "!"
                 THEN /\ rl_not' = TRUE
                      /\ rl_mask' = NegationUniverse
                      /\ UNCHANGED rl_pc
                 ELSE IF level > 9 \/ level < 0
                 THEN UNCHANGED <<rl_not, rl_mask, rl_pc>>
                 ELSE /\ rl_mask' = IF rl_not THEN rl_mask \ {level}
                                    ELSE rl_mask \cup {level}
                      /\ UNCHANGED <<rl_not, rl_pc>>
    /\ UNCHANGED rl_in

InitRunlevels ==
    /\ InitSm
    /\ InitConf
    /\ RlimOff
    /\ IncOff
    /\ rl_in \in RlInputs
    /\ rl_i = 0
    /\ rl_not = FALSE
    /\ rl_mask = {}
    /\ rl_pc = "call"

NextRunlevels ==
    /\ RlCall \/ RlStep
    /\ UNCHANGED <<machinevars, parservars, rlim_line, rlim_arr, rlim_pc, incvars>>

SpecRunlevels == InitRunlevels /\ [][NextRunlevels]_vars

(* ------------------------------------------------------------------ *)
(* conf.c: conf_parse_rlimit()                                         *)
(* ------------------------------------------------------------------ *)

\* <sys/resource.h>, Linux
RLIMIT_NLIMITS == 16
\* RLIM_INFINITY, 2^64 - 1 with a 64-bit rlim_t
RLIM_INFINITY ==
    <<"1", "8", "4", "4", "6", "7", "4", "4", "0", "7",
      "3", "7", "0", "9", "5", "5", "1", "6", "1", "5">>

\* rlimit_names[], with the RLIMIT_* values of Linux
rlimit_names ==
    <<[name |-> "as", val |-> 9], [name |-> "core", val |-> 4],
      [name |-> "cpu", val |-> 0], [name |-> "data", val |-> 2],
      [name |-> "fsize", val |-> 1], [name |-> "locks", val |-> 10],
      [name |-> "memlock", val |-> 8], [name |-> "msgqueue", val |-> 12],
      [name |-> "nice", val |-> 13], [name |-> "nofile", val |-> 7],
      [name |-> "nproc", val |-> 6], [name |-> "rss", val |-> 5],
      [name |-> "rtprio", val |-> 14], [name |-> "rttime", val |-> 15],
      [name |-> "sigpending", val |-> 11], [name |-> "stack", val |-> 3]>>

\* str2rlim(): the first entry of the table with that name, or -1
RECURSIVE str2rlim_from(_, _)
str2rlim_from(str, k) ==
    IF k > Len(rlimit_names) THEN 0 - 1
    ELSE IF str = rlimit_names[k].name THEN rlimit_names[k].val
    ELSE str2rlim_from(str, k + 1)
str2rlim(str) == str2rlim_from(str, 1)

\* the upper limit given to strtonum(): (long long)2 << 31
RlimMax == <<"4", "2", "9", "4", "9", "6", "7", "2", "9", "6">>

\* the keywords for RLIM_INFINITY
InfinityWords_unlimited_only == {<<"unlimited">>}

InfinityWords == {<<"unlimited">>, <<"infinity">>}

\* conf_parse_rlimit(line, arr): line is the sequence of tokens strtok()
\* finds, a level, a resource name and the characters of a value
conf_parse_rlimit(line, arr) ==
    IF Len(line) < 2 THEN arr
    ELSE LET resource == str2rlim(line[2])
         IN  IF resource < 0 \/ resource > RLIMIT_NLIMITS THEN arr
             ELSE IF Len(line) < 3 THEN arr
             ELSE IF line[1] # "soft" /\ line[1] # "hard" THEN arr
             ELSE LET r   == strtonum(line[3], <<"0">>, RlimMax)
                      inf == line[3] \in InfinityWords
                      cfg == IF inf THEN RLIM_INFINITY ELSE r.val
                  IN  IF ~inf /\ r.err THEN arr
                      ELSE IF line[1] = "soft"
                      THEN [arr EXCEPT ![resource].rlim_cur = cfg]
                      ELSE [arr EXCEPT ![resource].rlim_max = cfg]

\* the vector before the line is parsed
BaseRlimit ==
    [r \in 0..(RLIMIT_NLIMITS - 1) |->
        [rlim_cur |-> <<"1", "0", "2", "4">>, rlim_max |-> <<"8", "1", "9", "2">>]]

\* tokens of the rlimit lines
RlimLevels == {"soft", "hard", "SOFT", "both"}
RlimNames == {"cpu", "nofile", "stack", "bogus"}
RlimValues ==
    {<<"unlimited">>, <<"infinity">>, <<"0">>, <<"4", "0", "9", "6">>, <<"0", "7">>,
     <<"4", "2", "9", "4", "9", "6", "7", "2", "9", "6">>,
     <<"4", "2", "9", "4", "9", "6", "7", "2", "9", "7">>,
     <<"-", "1">>, <<"1", "0", "x">>, <<"m", "a", "x">>}
RlimLines ==
    {<<>>} \cup {<<l>> : l \in RlimLevels}
    \cup {<<l, n>> : l \in RlimLevels, n \in RlimNames}
    \cup {<<l, n, v>> : l \in RlimLevels, n \in RlimNames, v \in RlimValues}

\* conf_parse_rlimit() is called on the line
RlimParse ==
    /\ rlim_pc = "call"
    /\ rlim_arr' = conf_parse_rlimit(rlim_line, rlim_arr)
    /\ rlim_pc' = "done"
    /\ UNCHANGED rlim_line

InitRlimit ==
    /\ InitSm
    /\ InitConf
    /\ RlOff
    /\ IncOff
    /\ rlim_line \in RlimLines
    /\ rlim_arr = BaseRlimit
    /\ rlim_pc = "call"

NextRlimit ==
    /\ RlimParse
    /\ UNCHANGED <<machinevars, parservars, rl_in, rl_i, rl_not, rl_mask, rl_pc, incvars>>

SpecRlimit == InitRlimit /\ [][NextRlimit]_vars

(* ------------------------------------------------------------------ *)
(* conf.c: parse_conf() on `runlevel <token>` lines, line by line      *)
(* ------------------------------------------------------------------ *)

\* longest root config
MaxLines == 2

RunlevelTokens ==
    {<<"1">>, <<"3">>, <<"6">>, <<"9">>, <<"0">>, <<"0", "7">>, <<"1", "0">>,
     <<"-", "3">>, <<"5", "x">>, <<"x">>}
RunlevelLines == {NumLine("runlevel", t) : t \in RunlevelTokens}
RECURSIVE LineSeqs(_, _)
LineSeqs(L, n) ==
    IF n = 0 THEN {<<>>}
    ELSE LineSeqs(L, n - 1)
         \cup {Append(t, l) : t \in {u \in LineSeqs(L, n - 1) : Len(u) = n - 1}, l \in L}

\* one turn of the loop of parse_conf(FINIT_CONF): the next line goes through
\* parse_static() and parse_dynamic()
ParseLine ==
    /\ pc = "idle"
    /\ files[FINIT_CONF].exists
    /\ parse_pos < Len(files[FINIT_CONF].lines)
    /\ LET line == files[FINIT_CONF].lines[parse_pos + 1]
           P    == parse_dynamic(line,
                                 parse_static(line, CurrentParseState, runlevel, files),
                                 runlevel)
       IN  /\ StoreParseState(P)
           /\ calls' = calls \o [i \in 1..Len(P.cmds) |->
                                    C("run_interactive", P.cmds[i], in_teardown)]
    /\ parse_pos' = parse_pos + 1
    /\ UNCHANGED <<smvars, pc, stopping, nologin_file, conf_change_list, path, rested,
                   lastev, nhandlers, files, fnvars>>

\* bootstrap, with a root config of `runlevel` lines
InitParse ==
    /\ InitSm
    /\ FnOff
    /\ \E lines \in LineSeqs(RunlevelLines, MaxLines) :
          files = [f \in FileNames |-> IF f = FINIT_CONF THEN File(lines) ELSE NoFile]
    /\ hostname = DEFHOST
    /\ network = NullStr
    /\ runparts = NullStr
    /\ sdown = NullStr
    /\ cfglevel = RUNLEVEL
    /\ svcs = [n \in ServiceNames |-> "none"]
    /\ parse_pos = 0

NextParse == ParseLine

SpecParse == InitParse /\ [][NextParse]_vars

(* ------------------------------------------------------------------ *)
(* The state machine with configuration files that change              *)
(* ------------------------------------------------------------------ *)

RootA ==
    <<Line("host", "alpha"), NumLine("runlevel", <<"3">>), Line("network", "ifup-a"),
      Line("runparts", "/etc/rc.a"), Line("shutdown", "halt-a"), Line("service", "foo")>>
RootB ==
    <<Line("host", "beta"), NumLine("runlevel", <<"4">>), Line("network", "ifup-b"),
      Line("runparts", "/etc/rc.b"), Line("mknod", "/dev/x"), Line("module", "m"),
      Line("shutdown", "halt-b"), Line("include", IncFile)>>
IncA == <<Line("shutdown", "halt-inc"), Line("task", "bar")>>
DropA == <<Line("#", "comment"), Line("run", "bar"), Line("module", "m")>>

\* what each file can hold; only the root config has include lines
Contents(f) ==
    CASE f = FINIT_CONF -> {NoFile, File(RootA), File(RootB)}
      [] f = IncFile -> {NoFile, File(IncA)}
      [] f = DropIn -> {NoFile, File(DropA)}

\* someone creates, rewrites or removes a configuration file
WriteConf ==
    /\ pc = "idle"
    /\ \E f \in FileNames :
          \E c \in Contents(f) :
             /\ c # files[f]
             /\ files' = [files EXCEPT ![f] = c]
    /\ UNCHANGED <<machinevars, hostname, network, runparts, sdown, cfglevel, svcs,
                   parse_pos, fnvars>>

\* the levels asked for, and the event seen, in this specification
ConfLevels == {0, 2}
ConfEvent == {"IN_CREATE"}

\* conf_init(): conf_monitor() ends in conf_reload(), at runlevel 0
InitSpecConf ==
    /\ InitSm
    /\ FnOff
    /\ files \in [FileNames -> UNION {Contents(f) : f \in FileNames}]
    /\ \A f \in FileNames : files[f] \in Contents(f)
    /\ parse_pos = 0
    /\ \E scandir_ok \in BOOLEAN :
          LET P == conf_reload(ParseState(DEFHOST, NullStr, NullStr, NullStr, RUNLEVEL,
                                          [n \in ServiceNames |-> "none"]),
                               0, files, scandir_ok)
          IN  /\ hostname = P.hostname
              /\ network = P.network
              /\ runparts = P.runparts
              /\ sdown = P.sdown
              /\ cfglevel = P.cfglevel
              /\ svcs = P.svcs

NextConf ==
    \/ \E lvl \in ConfLevels : SetRunlevelTo(lvl)
    \/ SetReload
    \/ ServiceExit
    \/ DoChangeOf("a.conf", ConfEvent, TRUE)
    \/ WriteConf
    \/ SmStep
    \/ Handler

SpecConf == InitSpecConf /\ [][NextConf]_vars

(* ------------------------------------------------------------------ *)
(* conf.c: conf_reload() step by step, its parse_conf() frames on a    *)
(* stack                                                               *)
(* ------------------------------------------------------------------ *)

\* frames of parse_conf() the stack of the process has room for
MaxDepth == 3

\* a second drop-in of rcsd
DropIn2 == "/etc/finit.d/b.conf"
IncFileNames == FileNames \cup {DropIn2}
IncRcsdEntries == <<DropIn, DropIn2>>

IncRootA ==
    <<RlimitLine("soft", "nofile", <<"4", "0", "9", "6">>), Line("include", IncFile),
      RlimitLine("soft", "cpu", <<"7">>), RlimitLine("soft", "bogus", <<"1">>)>>
IncRootB == <<Line("include", FINIT_CONF), Line("shutdown", "halt-b")>>
IncRootC ==
    <<Line("include", IncFile), RlimitLine("soft", "stack", <<"0">>), Line("service", "foo")>>
IncIncA == <<RlimitLine("hard", "nofile", <<"unlimited">>)>>
IncIncB == <<Line("include", FINIT_CONF)>>
IncIncC == <<Line("#", "comment"), Line("task", "bar")>>
IncDropA == <<RlimitLine("soft", "cpu", <<"unlimited">>), Line("service", "foo")>>
IncDropB == <<Line("service", "bar")>>

IncContents(f) ==
    CASE f = FINIT_CONF -> {NoFile, File(IncRootA), File(IncRootB), File(IncRootC)}
      [] f = IncFile -> {NoFile, File(IncIncA), File(IncIncB), File(IncIncC)}
      [] f = DropIn -> {NoFile, File(IncDropA)}
      [] f = DropIn2 -> {NoFile, File(IncDropB)}

\* setrlimit() per index: refused where the soft limit exceeds the hard limit
setrlimit(os, arr) ==
    [r \in DOMAIN os |->
        IF DigitsLeq(arr[r].rlim_cur, arr[r].rlim_max) THEN arr[r] ELSE os[r]]

\* parse_conf(file) is entered on stack stk: fopen() fails for a file that is
\* gone, or for want of a descriptor; the frame does not fit if the stack is full
Enter(file, stk, fopen_ok) ==
    IF ~files[file].exists \/ ~fopen_ok THEN stk
    ELSE Append(stk, [file |-> file, pos |-> 0])
Overflows(file, stk, fopen_ok) ==
    files[file].exists /\ fopen_ok /\ Len(stk) >= MaxDepth

IncTop == inc_stack[Len(inc_stack)]
IncAdvanced == [inc_stack EXCEPT ![Len(inc_stack)].pos = @ + 1]

\* the vectors parse_conf_dynamic() hands to the entities of a drop-in
RECURSIVE dropin_handed(_, _)
dropin_handed(lines, scratch) ==
    IF lines = <<>> THEN <<>>
    ELSE IF Head(lines).verb = "rlimit"
    THEN dropin_handed(Tail(lines), conf_parse_rlimit(Head(lines).rlim, scratch))
    ELSE IF Head(lines).verb \in {"service", "task", "run", "tty"}
    THEN <<scratch>> \o dropin_handed(Tail(lines), scratch)
    ELSE dropin_handed(Tail(lines), scratch)

\* conf_reload() calls parse_conf(FINIT_CONF): getrlimit(), then fopen()
IncCall ==
    /\ inc_pc = "call"
    /\ global_rlimit' = os_rlimit
    /\ want_rlimit' = os_rlimit
    /\ svcs' = svc_mark_dynamic(svcs)
    /\ \E fopen_ok \in BOOLEAN : inc_stack' = Enter(FINIT_CONF, inc_stack, fopen_ok)
    /\ inc_pc' = "run"
    /\ UNCHANGED <<os_rlimit, handed, hostname, network, runparts, sdown, cfglevel>>

\* the loop of parse_conf(), an include line: parse_static() calls parse_conf()
IncInclude ==
    /\ inc_pc = "run"
    /\ inc_stack # <<>>
    /\ IncTop.pos < Len(files[IncTop.file].lines)
    /\ LET line == files[IncTop.file].lines[IncTop.pos + 1]
       IN  /\ line.verb = "include"
           /\ IF ~files[line.arg].exists
              THEN /\ inc_stack' = IncAdvanced
                   /\ UNCHANGED <<inc_pc, global_rlimit>>
              ELSE \E fopen_ok \in BOOLEAN :
                      /\ global_rlimit' = os_rlimit
                      /\ IF Overflows(line.arg, IncAdvanced, fopen_ok)
                         THEN inc_pc' = "overflow" /\ UNCHANGED inc_stack
                         ELSE /\ inc_stack' = Enter(line.arg, IncAdvanced, fopen_ok)
                              /\ UNCHANGED inc_pc
    /\ UNCHANGED <<os_rlimit, want_rlimit, handed, hostname, network, runparts, sdown,
                   cfglevel, svcs>>

\* the loop of parse_conf(), any other line: parse_static(), parse_dynamic()
IncLine ==
    /\ inc_pc = "run"
    /\ inc_stack # <<>>
    /\ IncTop.pos < Len(files[IncTop.file].lines)
    /\ LET line == files[IncTop.file].lines[IncTop.pos + 1]
           P    == parse_dynamic(line,
                                 parse_static(line, CurrentParseState, runlevel, files),
                                 runlevel)
       IN  /\ line.verb # "include"
           /\ StoreParseState(P)
           /\ IF line.verb = "rlimit"
              THEN /\ global_rlimit' = conf_parse_rlimit(line.rlim, global_rlimit)
                   /\ want_rlimit' = conf_parse_rlimit(line.rlim, want_rlimit)
              ELSE UNCHANGED <<global_rlimit, want_rlimit>>
    /\ inc_stack' = IncAdvanced
    /\ UNCHANGED <<inc_pc, os_rlimit, handed>>

\* parse_conf() at the end of its file: fclose(), setrlimit(), return
IncReturn ==
    /\ inc_pc = "run"
    /\ inc_stack # <<>>
    /\ IncTop.pos = Len(files[IncTop.file].lines)
    /\ os_rlimit' = setrlimit(os_rlimit, global_rlimit)
    /\ inc_stack' = SubSeq(inc_stack, 1, Len(inc_stack) - 1)
    /\ UNCHANGED <<inc_pc, global_rlimit, want_rlimit, handed, hostname, network, runparts,
                   sdown, cfglevel, svcs>>

\* parse_conf(FINIT_CONF) has returned: scandir(), parse_conf_dynamic() per entry
IncRcsd ==
    /\ inc_pc = "run"
    /\ inc_stack = <<>>
    /\ \E scandir_ok \in BOOLEAN :
          handed' = [d \in DOMAIN handed |->
                        IF scandir_ok /\ files[d].exists
                        THEN dropin_handed(files[d].lines, global_rlimit)
                        ELSE <<>>]
    /\ inc_pc' = "done"
    /\ UNCHANGED <<inc_stack, global_rlimit, os_rlimit, want_rlimit, hostname, network,
                   runparts, sdown, cfglevel, svcs>>

InitInclude ==
    /\ InitSm
    /\ RlOff
    /\ RlimOff
    /\ files \in [IncFileNames -> UNION {IncContents(f) : f \in IncFileNames}]
    /\ \A f \in IncFileNames : files[f] \in IncContents(f)
    /\ hostname = DEFHOST
    /\ network = NullStr
    /\ runparts = NullStr
    /\ sdown = NullStr
    /\ cfglevel = RUNLEVEL
    /\ svcs = [n \in ServiceNames |-> "none"]
    /\ parse_pos = 0
    /\ inc_stack = <<>>
    /\ inc_pc = "call"
    /\ global_rlimit = BaseRlimit
    /\ os_rlimit = BaseRlimit
    /\ want_rlimit = BaseRlimit
    /\ handed = [d \in {DropIn, DropIn2} |-> <<>>]

NextInclude ==
    /\ IncCall \/ IncInclude \/ IncLine \/ IncReturn \/ IncRcsd
    /\ UNCHANGED <<machinevars, files, parse_pos, rl_in, rl_i, rl_not, rl_mask, rl_pc,
                   rlim_line, rlim_arr, rlim_pc>>

\* a parse that has started goes on until it returns
SpecInclude == InitInclude /\ [][NextInclude]_vars /\ WF_vars(NextInclude)

(* ------------------------------------------------------------------ *)
(* The state machine under a main loop that keeps calling sm_step()    *)
(* ------------------------------------------------------------------ *)

\* the levels asked for in this specification
FairLevels == {1, 2}

RunlevelRequest == \E lvl \in FairLevels : SetRunlevelTo(lvl)

NextFair ==
    \/ RunlevelRequest
    \/ SetReload
    \/ ServiceExit
    \/ SmStep
    \/ Handler

\* the main loop calls sm_step() again and again, a handler that has started
\* runs to its end, and a stopping service is collected in the end
FairSpec ==
    /\ Init
    /\ [][NextFair]_vars
    /\ WF_vars(SmStep)
    /\ WF_vars(Handler)
    /\ SF_vars(ServiceExit)

(* ------------------------------------------------------------------ *)
(* Properties                                                          *)
(* ------------------------------------------------------------------ *)

Levels == 0..MaxRunlevel
NologinLevels == {0, 1, 6}
WaitStates == {"runlevel_wait", "reload_wait"}
RunlevelPath == <<"running", "runlevel_change", "runlevel_wait", "running">>

\* a handler of sm_step() runs in this step
HandlerRuns == pc = "restart"

\* positions of a call in the record of the transition in progress
Pos(fn) == {i \in Idx(calls) : calls[i].fn = fn}
PosArg(fn, arg) == {i \in Idx(calls) : calls[i].fn = fn /\ calls[i].arg = arg}
\* service_step_all issued with in_teardown set (teardown) and clear (start)
TeardownStepAll == {i \in Pos("service_step_all") : calls[i].td}
StartStepAll == {i \in Pos("service_step_all") : ~calls[i].td}
Before(I, J) == \A i \in I, j \in J : i < j

\* C1: sm_step() is idempotent at rest: when sm_step() has returned and no
\* request flag and no answer of svc_stop_completed() has changed since, a
\* second sm_step() changes none of state, runlevel, prevlevel, newlevel,
\* reload, in_teardown and makes no collaborator call.
C1_IdempotentAtRest ==
    [][(rested /\ HandlerRuns) => UNCHANGED <<smvars, calls>>]_vars

\* C2 as stated: whenever running is entered, no runlevel request is pending
\* (newlevel holds no level of 0..9) or the pending request equals the
\* current runlevel.
C2_NoRequestOnEnteringRunning ==
    [][(state # "running" /\ state' = "running")
          => (newlevel' \notin Levels \/ newlevel' = runlevel')]_vars

\* C2 as amended: whenever sm_step() returns with the machine in running, no
\* request for a level in 0..9 is pending; a request that was pending when
\* running was entered has been examined by the running handler of the same
\* call.
C2_NoRequestOnReturnInRunning ==
    [][(HandlerRuns /\ pc' = "idle" /\ state' = "running")
          => newlevel' \notin Levels]_vars

\* sm_step() has returned in running after a request for the current level
\* was dropped at the end of a runlevel transition
C2_Witness ==
    /\ pc = "idle"
    /\ rested
    /\ state = "running"
    /\ path = RunlevelPath
    /\ newlevel = NoLevel
    /\ runlevel = 2
    /\ prevlevel = 1

\* C3: whenever conf_reload() returns, the change set is empty.
C3_ReloadDrains ==
    [][Count(calls', "conf_reload") > Count(calls, "conf_reload")
          => conf_change_list' = <<>>]_vars

\* C4 as stated: every hook that is run comes after svc_stop_completed()
\* returned NULL in its transition and before the first service_step_all
\* issued with in_teardown clear.
C4_HooksAfterTeardownBeforeStart ==
    \A i \in Pos("plugin_run_hooks") :
        /\ \E j \in Pos("svc_stop_completed") : j < i
        /\ \A j \in StartStepAll : i < j
        /\ state = "running" => \E j \in StartStepAll : i < j

\* C4 as amended: HOOK_RUNLEVEL_CHANGE runs after svc_stop_completed()
\* returned NULL and before the first start-phase service_step_all;
\* HOOK_SHUTDOWN runs in runlevel_change before the teardown service_step_all
\* (so before teardown has begun); HOOK_SVC_RECONF runs after
\* svc_stop_completed() returned NULL, between the two start-phase
\* service_step_all calls of reload_wait.
C4_HookOrder ==
    /\ \A i \in PosArg("plugin_run_hooks", "HOOK_RUNLEVEL_CHANGE") :
          /\ \E j \in Pos("svc_stop_completed") : j < i
          /\ \A j \in StartStepAll : i < j
          /\ \E j \in StartStepAll : i < j
    /\ \A i \in PosArg("plugin_run_hooks", "HOOK_SHUTDOWN") :
          /\ \A j \in Pos("service_step_all") : i < j
          /\ \E j \in TeardownStepAll : i < j
          /\ \A j \in Pos("svc_stop_completed") : i < j
    /\ \A i \in PosArg("plugin_run_hooks", "HOOK_SVC_RECONF") :
          /\ \E j \in Pos("svc_stop_completed") : j < i
          /\ Cardinality({j \in StartStepAll : j < i}) = 1
          /\ Cardinality({j \in StartStepAll : i < j}) = 1
    /\ \A i \in Pos("plugin_run_hooks") :
          calls[i].arg \in {"HOOK_RUNLEVEL_CHANGE", "HOOK_SHUTDOWN", "HOOK_SVC_RECONF"}

\* a shutdown transition has completed: both of its hooks have run
C4_Witness ==
    /\ state = "running"
    /\ PosArg("plugin_run_hooks", "HOOK_SHUTDOWN") # {}
    /\ PosArg("plugin_run_hooks", "HOOK_RUNLEVEL_CHANGE") # {}

\* C5: a request made with sm_set_runlevel() during runlevel_wait or
\* reload_wait changes none of runlevel, prevlevel, state; the wait handler
\* keeps the request and leaves only for running; runlevel_change is entered
\* only from running, and it commits the level written last.
C5_RequestDuringWait ==
    [][/\ (state \in WaitStates /\ newlevel' # newlevel)
             => (pc = "idle" /\ UNCHANGED <<runlevel, prevlevel, state>>)
       /\ (state \in WaitStates /\ HandlerRuns)
             => (newlevel' = newlevel /\ state' \in {state, "running"})
       /\ (state # "runlevel_change" /\ state' = "runlevel_change")
             => (state = "running" /\ newlevel' = newlevel)
       /\ (runlevel' # runlevel)
             => (state = "runlevel_change" /\ HandlerRuns /\ runlevel' = newlevel)
       /\ (newlevel' # newlevel)
             => (pc = "idle" \/ newlevel' = NoLevel)]_vars

\* a request for another level is pending while the machine waits
C5_Witness ==
    /\ pc = "idle"
    /\ state = "runlevel_wait"
    /\ stopping
    /\ newlevel \in Levels
    /\ newlevel # runlevel

\* C6 as stated: from bootstrap one handler run reaches running with
\* runlevel 0; the change to a normal level L from runlevel 0 commits
\* runlevel = L and prevlevel = 0, visits running, runlevel_change,
\* runlevel_wait, running, and calls tty_runlevel() exactly once.
C6_LeaveBootstrapTtyOnce ==
    [][/\ (state = "bootstrap" /\ HandlerRuns)
             => (state' = "running" /\ runlevel' = 0)
       /\ (state = "runlevel_change" /\ HandlerRuns /\ runlevel = 0)
             => (runlevel' = newlevel /\ prevlevel' = 0 /\ state' = "runlevel_wait")
       /\ (state = "runlevel_wait" /\ state' = "running" /\ prevlevel = 0
              /\ runlevel \notin {0, 6})
             => (/\ path' = RunlevelPath
                 /\ UNCHANGED <<runlevel, prevlevel>>
                 /\ Count(calls', "tty_runlevel") = 1)]_vars

\* C6 as amended: the same, but tty_runlevel() is not called during this
\* transition (it is called only when prevlevel > 0).
C6_LeaveBootstrapNoTty ==
    [][/\ (state = "bootstrap" /\ HandlerRuns)
             => (state' = "running" /\ runlevel' = 0)
       /\ (state = "runlevel_change" /\ HandlerRuns /\ runlevel = 0)
             => (runlevel' = newlevel /\ prevlevel' = 0 /\ state' = "runlevel_wait")
       /\ (state = "runlevel_wait" /\ state' = "running" /\ prevlevel = 0
              /\ runlevel \notin {0, 6})
             => (/\ path' = RunlevelPath
                 /\ UNCHANGED <<runlevel, prevlevel>>
                 /\ Count(calls', "tty_runlevel") = 0)]_vars

\* the machine has left bootstrap for runlevel 2
C6_Witness ==
    /\ pc = "idle"
    /\ state = "running"
    /\ path = RunlevelPath
    /\ runlevel = 2
    /\ prevlevel = 0

\* C7: in a transition into runlevel 0 or 6, log_exit() and HOOK_SHUTDOWN
\* are each called once, before the teardown service_step_all; do_shutdown()
\* is called once, after svc_stop_completed() returned NULL, and the
\* transition does not call tty_runlevel(); a transition into another level,
\* and a reload, call none of log_exit, HOOK_SHUTDOWN, do_shutdown.
C7_ShutdownPath ==
    IF Pos("runlevel_set") # {} /\ runlevel \in {0, 6}
    THEN /\ Cardinality(Pos("log_exit")) = 1
         /\ Cardinality(PosArg("plugin_run_hooks", "HOOK_SHUTDOWN")) = 1
         /\ Before(Pos("log_exit"), PosArg("plugin_run_hooks", "HOOK_SHUTDOWN"))
         /\ Before(PosArg("plugin_run_hooks", "HOOK_SHUTDOWN"), TeardownStepAll)
         /\ TeardownStepAll # {}
         /\ Cardinality(Pos("do_shutdown")) = (IF state = "running" THEN 1 ELSE 0)
         /\ Before(Pos("svc_stop_completed"), Pos("do_shutdown"))
         /\ Pos("do_shutdown") # {} => Pos("svc_stop_completed") # {}
         /\ Pos("tty_runlevel") = {}
    ELSE /\ Pos("log_exit") = {}
         /\ PosArg("plugin_run_hooks", "HOOK_SHUTDOWN") = {}
         /\ Pos("do_shutdown") = {}

\* the transition into runlevel 6 has called do_shutdown()
C7_Witness ==
    /\ state = "running"
    /\ runlevel = 6
    /\ prevlevel = 2
    /\ Pos("do_shutdown") # {}

\* C8: the runlevel_change handler calls touch("/etc/nologin") iff the new
\* runlevel is in {0,1,6} and erase("/etc/nologin") iff the previous one is,
\* the file is left as those calls leave it, and no other step of the state
\* machine touches or erases it.
C8_Nologin ==
    [][IF state = "runlevel_change" /\ HandlerRuns
       THEN /\ Count(calls', "touch") = (IF runlevel' \in NologinLevels THEN 1 ELSE 0)
            /\ Count(calls', "erase") = (IF prevlevel' \in NologinLevels THEN 1 ELSE 0)
            /\ prevlevel' = runlevel
            /\ nologin_file' = (IF prevlevel' \in NologinLevels THEN FALSE
                                ELSE IF runlevel' \in NologinLevels THEN TRUE
                                ELSE nologin_file)
       ELSE /\ nologin_file' = nologin_file
            /\ Count(calls', "touch") <= Count(calls, "touch")
            /\ Count(calls', "erase") <= Count(calls, "erase")]_vars

\* a change from runlevel 2 to 6 has created the file
C8_Witness ==
    /\ state = "runlevel_wait"
    /\ runlevel = 6
    /\ prevlevel = 2
    /\ Pos("touch") # {}
    /\ Pos("erase") = {}
    /\ nologin_file

\* C9: runlevel stays in 0..9 whatever integers sm_set_runlevel() is given;
\* runlevel_change is entered only with newlevel in 0..9 and different from
\* runlevel; the commit stores the old runlevel in prevlevel, newlevel in
\* runlevel, and clears newlevel.
C9_RunlevelRange ==
    [][/\ runlevel \in Levels
       /\ runlevel' \in Levels
       /\ (state # "runlevel_change" /\ state' = "runlevel_change")
             => (newlevel' \in Levels /\ newlevel' # runlevel')
       /\ (state = "runlevel_change" /\ HandlerRuns)
             => (/\ prevlevel' = runlevel
                 /\ runlevel' = newlevel
                 /\ newlevel' = NoLevel)]_vars

\* an out-of-range request is pending and sm_step() has returned without
\* acting on it
C9_Witness ==
    /\ pc = "idle"
    /\ rested
    /\ state = "running"
    /\ newlevel > MaxRunlevel
    /\ runlevel = 9

\* paths handed to conf_changed()
Paths ==
    {NullPath,
     <<"a.conf">>,
     <<"/", "etc", "/", "finit.d", "/", "a.conf">>,
     <<"/", "etc", "/", "finit.conf">>,
     <<"a.conf", "/", "finit.conf">>,
     <<"finit.conf", "/", "b.conf">>,
     <<"/", "etc", "/", "finit.d", "/">>}

\* the trailing basename of a path: what follows its last "/"
TrailingBasename(p) == IF p[Len(p)] = "/" THEN "" ELSE p[Len(p)]

Members == {conf_change_list[i] : i \in Idx(conf_change_list)}

NewCalls ==
    IF Len(calls') >= Len(calls)
    THEN SubSeq(calls', Len(calls) + 1, Len(calls'))
    ELSE <<>>
NewPos(fn) == {i \in 1..Len(NewCalls) : NewCalls[i].fn = fn}

\* C16: driver discipline: a call of sm_step() runs a bounded number of
\* handlers (at most 8, the chain from bootstrap through a runlevel change and
\* a reload back to running, plus the handler that finds nothing to do); when
\* it returns the state is running, runlevel_wait or reload_wait; it returns in
\* a wait state only if svc_stop_completed() reported a service still stopping.
C16_DriverDiscipline ==
    [][HandlerRuns =>
          /\ nhandlers + 1 <= 8
          /\ pc' = "idle" =>
                /\ state' \in {"running", "runlevel_wait", "reload_wait"}
                /\ state' \in WaitStates => stopping]_vars

\* a call of sm_step() that left bootstrap has returned in a wait state
C16_Witness ==
    /\ pc = "idle"
    /\ state = "runlevel_wait"
    /\ stopping
    /\ path = <<"running", "runlevel_change", "runlevel_wait">>
    /\ prevlevel = 0

\* C17: the teardown flag matches the phase of every step-all: from
\* runlevel_change and reload_change service_step_all is issued with
\* in_teardown set, from bootstrap, runlevel_wait and reload_wait with
\* in_teardown clear, and in the wait states only after svc_stop_completed()
\* returned NULL in the same handler run.
C17_TeardownMatchesPhase ==
    [][HandlerRuns =>
          \A i \in NewPos("service_step_all") :
             /\ state \in {"runlevel_change", "reload_change"} => NewCalls[i].td
             /\ state \in {"bootstrap"} \cup WaitStates => ~NewCalls[i].td
             /\ state \in WaitStates =>
                   /\ ~stopping
                   /\ \E j \in NewPos("svc_stop_completed") :
                         j < i /\ NewCalls[j].arg = "NULL"]_vars

\* a reload went through its teardown step-all and its start step-alls
C17_Witness ==
    /\ state = "running"
    /\ path = <<"running", "reload_change", "reload_wait", "running">>
    /\ Cardinality(TeardownStepAll) = 1
    /\ Cardinality(StartStepAll) = 2
    /\ Before(TeardownStepAll, StartStepAll)

\* C18: in runlevel_change conf_reload() is called iff the change set is
\* non-empty, after runlevel and prevlevel are committed (runlevel_set) and
\* before the teardown service_step_all; in reload_change it is called
\* unconditionally and before in_teardown is set; a basename inserted before
\* the runlevel change is no longer in the change set once the transition has
\* passed runlevel_change.
C18_ReparseDecision ==
    [][HandlerRuns =>
          /\ state = "runlevel_change" =>
                /\ Cardinality(NewPos("conf_reload")) =
                      (IF conf_change_list # <<>> THEN 1 ELSE 0)
                /\ \A i \in NewPos("conf_reload") :
                      /\ \E j \in NewPos("runlevel_set") : j < i
                      /\ \E j \in NewPos("service_step_all") : i < j
                      /\ runlevel' = newlevel /\ prevlevel' = runlevel
                /\ conf_change_list' = <<>>
          /\ state = "reload_change" =>
                /\ Cardinality(NewPos("conf_reload")) = 1
                /\ \A i \in NewPos("conf_reload") : ~NewCalls[i].td
                /\ ~in_teardown /\ in_teardown']_vars

\* C19: after every committed runlevel change whose new runlevel is 0, 1 or 6
\* /etc/nologin exists when the runlevel_change handler has finished.
C19_NologinExists ==
    [][(HandlerRuns /\ state = "runlevel_change" /\ runlevel' \in NologinLevels)
          => nologin_file']_vars

\* the characters of the bracketed list of s: from the second character up
\* to the first ']'
RlListEnd(str) ==
    IF \E k \in 2..Len(str) : str[k] = "]"
    THEN CHOOSE k \in 2..Len(str) : str[k] = "]" /\ \A j \in 2..(k - 1) : str[j] # "]"
    ELSE Len(str) + 1
RlList(str) == SubSeq(str, 2, RlListEnd(str) - 1)
DigitsOf(l) == {DigitVal(l[k]) : k \in {j \in 1..Len(l) : l[j] \in Digits}}
NegatedAt(l) == {k \in 1..Len(l) : l[k] = "!"}
AfterLastNegation(l) ==
    SubSeq(l, (CHOOSE k \in NegatedAt(l) : \A j \in NegatedAt(l) : j <= k) + 1, Len(l))
BeginsNegated(str) == Len(str) >= 2 /\ str[1] = "[" /\ str[2] = "!"
NamesHalt(l) == \E k \in 1..Len(l) : l[k] \in {"S", "s", "0"}

\* C14 as stated: the mask is a subset of bits 0..9; a null argument gives the
\* mask of "[234]"; when s begins with "[!" the mask is bits 1..9 minus the
\* listed digits, without bit 0; 'S' and 's' denote bit 0.
C14_RunlevelMask ==
    rl_pc = "done" =>
       /\ rl_mask \subseteq 0..9
       /\ rl_in \in {NullArg, DefaultRunlevels} => rl_mask = {2, 3, 4}
       /\ (rl_in # NullArg /\ BeginsNegated(rl_in)) =>
             /\ rl_mask = (1..9) \ DigitsOf(RlList(rl_in))
             /\ 0 \notin rl_mask
       /\ (rl_in # NullArg /\ rl_in # <<>> /\ NegatedAt(RlList(rl_in)) = {}) =>
             (0 \in rl_mask <=> NamesHalt(RlList(rl_in)))

\* C14, amended: as stated, with the digits that count in a negated list
\* being those after its last '!'.
C14_RunlevelMaskLastNegation ==
    rl_pc = "done" =>
       /\ rl_mask \subseteq 0..9
       /\ rl_in \in {NullArg, DefaultRunlevels} => rl_mask = {2, 3, 4}
       /\ (rl_in # NullArg /\ BeginsNegated(rl_in)) =>
             /\ rl_mask = (1..9) \ DigitsOf(AfterLastNegation(RlList(rl_in)))
             /\ 0 \notin rl_mask
       /\ (rl_in # NullArg /\ rl_in # <<>> /\ NegatedAt(RlList(rl_in)) = {}) =>
             (0 \in rl_mask <=> NamesHalt(RlList(rl_in)))

\* "[!345]" has been converted
C14_Witness ==
    /\ rl_pc = "done"
    /\ rl_in = <<"[", "!", "3", "4", "5", "]">>
    /\ rl_mask = {1, 2, 6, 7, 8, 9}

\* what the tokens of a line say, read off the line itself
RlimLevelOk(line) == Len(line) >= 1 /\ line[1] \in {"soft", "hard"}
RlimNameOk(line) ==
    Len(line) >= 2 /\ line[2] \in {rlimit_names[k].name : k \in 1..Len(rlimit_names)}
RlimIsInfinity(line) == Len(line) >= 3 /\ line[3] \in {<<"unlimited">>, <<"infinity">>}
RlimIsNumber(line) ==
    /\ Len(line) >= 3
    /\ line[3] # <<>>
    /\ \A k \in 1..Len(line[3]) : line[3][k] \in Digits
    /\ \/ Len(Normalize(line[3])) < 10
       \/ Normalize(line[3]) = <<"4", "2", "9", "4", "9", "6", "7", "2", "9", "6">>
RlimValid(line) ==
    RlimLevelOk(line) /\ RlimNameOk(line) /\ (RlimIsInfinity(line) \/ RlimIsNumber(line))
RlimGiven(line) == IF RlimIsInfinity(line) THEN RLIM_INFINITY ELSE Normalize(line[3])
RlimIndex(line) ==
    (CHOOSE k \in 1..Len(rlimit_names) : rlimit_names[k].name = line[2]) 

\* C15: a line with a missing token, a level other than soft/hard, an
\* unrecognized resource name, or a value that is neither unlimited/infinity
\* nor an integer in [0, 2^32] leaves every entry of the vector unchanged; a
\* valid line changes exactly one field, soft or hard as the level says, of
\* exactly the named resource to the given value, RLIM_INFINITY for
\* unlimited/infinity.
C15_RlimitLine ==
    rlim_pc = "done" =>
       IF ~RlimValid(rlim_line)
       THEN rlim_arr = BaseRlimit
       ELSE LET res == rlimit_names[RlimIndex(rlim_line)].val
            IN  /\ \A r \in DOMAIN BaseRlimit : r # res => rlim_arr[r] = BaseRlimit[r]
                /\ rlim_line[1] = "soft" =>
                      /\ rlim_arr[res].rlim_cur = RlimGiven(rlim_line)
                      /\ rlim_arr[res].rlim_max = BaseRlimit[res].rlim_max
                /\ rlim_line[1] = "hard" =>
                      /\ rlim_arr[res].rlim_max = RlimGiven(rlim_line)
                      /\ rlim_arr[res].rlim_cur = BaseRlimit[res].rlim_cur

\* `soft nofile infinity` has set the soft limit of RLIMIT_NOFILE
C15_Witness ==
    /\ rlim_pc = "done"
    /\ rlim_line = <<"soft", "nofile", <<"infinity">>>>
    /\ rlim_arr[7] = [rlim_cur |-> RLIM_INFINITY, rlim_max |-> <<"8", "1", "9", "2">>]

\* the integer in 1..9 a token stands for, 0 if it stands for none
TokenLevel(tok) ==
    LET ds == IF tok # <<>> /\ tok[1] = "+" THEN Tail(tok) ELSE tok
    IN  IF ds # <<>> /\ (\A k \in 1..Len(ds) : ds[k] \in Digits)
           /\ (\A k \in 1..(Len(ds) - 1) : ds[k] = "0")
        THEN DigitVal(ds[Len(ds)])
        ELSE 0
LastRunlevelToken == files[FINIT_CONF].lines[parse_pos].tok

\* C12: after any sequence of `runlevel <token>` lines parsed during
\* bootstrap cfglevel is in {1,2,3,4,5,7,8,9}: a token that is no integer in
\* 1..9, or is 6, results in level 2; a token n in {1..5,7..9} in cfglevel = n.
C12_CfgLevel ==
    /\ cfglevel \in {1, 2, 3, 4, 5, 7, 8, 9}
    /\ parse_pos > 0 =>
          cfglevel = (IF TokenLevel(LastRunlevelToken) \in {1, 2, 3, 4, 5, 7, 8, 9}
                      THEN TokenLevel(LastRunlevelToken)
                      ELSE 2)

\* `runlevel 9` then `runlevel 6` were parsed: the level fell back to 2
C12_Witness ==
    /\ parse_pos = 2
    /\ files[FINIT_CONF].lines[1].tok = <<"9">>
    /\ files[FINIT_CONF].lines[2].tok = <<"6">>
    /\ cfglevel = 2
    /\ runlevel = 0

\* the lines a parse of the root config goes through, the lines of an
\* included file in place of its include line
RECURSIVE WithIncludes(_, _)
WithIncludes(lines, fs) ==
    IF lines = <<>> THEN <<>>
    ELSE IF Head(lines).verb = "include"
         THEN (IF fs[Head(lines).arg].exists THEN fs[Head(lines).arg].lines ELSE <<>>)
              \o WithIncludes(Tail(lines), fs)
         ELSE <<Head(lines)>> \o WithIncludes(Tail(lines), fs)
RootLines == IF files[FINIT_CONF].exists THEN WithIncludes(files[FINIT_CONF].lines, files) ELSE <<>>
ShutdownLines == {k \in 1..Len(RootLines) : RootLines[k].verb = "shutdown"}
LastShutdown ==
    IF ShutdownLines = {} THEN sdown
    ELSE RootLines[CHOOSE k \in ShutdownLines : \A j \in ShutdownLines : j <= k].arg
DeclaredInRoot ==
    {RootLines[k].arg : k \in {j \in 1..Len(RootLines) : RootLines[j].verb \in {"service", "task", "run"}}}
DeclaredInDropIn ==
    IF files[DropIn].exists
    THEN {files[DropIn].lines[k].arg :
             k \in {j \in 1..Len(files[DropIn].lines) :
                       files[DropIn].lines[j].verb \in {"service", "task", "run"}}}
    ELSE {}

\* C11: hostname, network, runparts and cfglevel are changed by the parser,
\* and mknod and modprobe are run by it, only during the initial bootstrap
\* phase: once the first runlevel change is committed no parse, in any
\* runlevel including a transition to halt, changes them or runs the
\* commands, while shutdown and include lines are honored at any time.
C11_BootstrapGating ==
    [][(HandlerRuns /\ NewPos("conf_reload") # {}) =>
          /\ sdown' = LastShutdown
          /\ \A n \in DeclaredInRoot : svcs'[n] = "ok"
          /\ (state = "runlevel_change" \/ prevlevel # NoLevel) =>
                /\ UNCHANGED <<hostname, network, runparts, cfglevel>>
                /\ NewPos("run_interactive") = {}]_vars

\* C13: when the machine re-enters running from runlevel_wait or reload_wait
\* every service left marked by the preceding conf_reload() has been
\* unregistered, every service the parse registered again is retained
\* unmarked, and no service remains marked; conf_reload() marks every
\* registered service the files no longer declare.
C13_NoStaleServices ==
    [][HandlerRuns =>
          /\ (state \in WaitStates /\ state' = "running") =>
                \A n \in ServiceNames :
                   /\ svcs'[n] # "marked"
                   /\ svcs[n] = "marked" => svcs'[n] = "none"
                   /\ svcs[n] = "ok" => svcs'[n] = "ok"
          /\ NewPos("conf_reload") # {} =>
                \A n \in ServiceNames :
                   /\ n \in DeclaredInRoot => svcs'[n] = "ok"
                   /\ n \notin DeclaredInRoot \cup DeclaredInDropIn =>
                         svcs'[n] = (IF svcs[n] = "none" THEN "none" ELSE "marked")
                   /\ svcs'[n] = "ok" => n \in DeclaredInRoot \cup DeclaredInDropIn
          /\ (state' = "running" /\ pc' = "idle") =>
                \A n \in ServiceNames : svcs'[n] # "marked"]_vars

\* a reload dropped foo, which the files no longer declare, and kept bar
C13_Witness ==
    /\ state = "running"
    /\ path = <<"running", "reload_change", "reload_wait", "running">>
    /\ ~files[FINIT_CONF].exists
    /\ files[DropIn].exists
    /\ svcs = [n \in ServiceNames |-> IF n = "bar" THEN "ok" ELSE "none"]
    /\ hostname = "alpha"

\* the reload flag is cleared only by the running handler on its way to
\* reload_change, and a pending request for another runlevel goes first
ReloadClearedOnlyForReload ==
    [][/\ (reload /\ ~reload') => (state = "running" /\ state' = "reload_change")
       /\ (HandlerRuns /\ state = "running" /\ reload
           /\ newlevel \in Levels /\ newlevel # runlevel) =>
             (state' = "runlevel_change" /\ reload')]_vars

\* a full reload is done
ReloadDone ==
    /\ state = "running"
    /\ path = <<"running", "reload_change", "reload_wait", "running">>
    /\ Pos("conf_reload") # {}

\* a requested reload is served, also one requested during reload_wait
ReloadServed ==
    /\ reload ~> (state = "reload_change" /\ ~reload)
    /\ (state = "reload_change") ~> ReloadDone
    /\ (state = "reload_wait" /\ reload) ~> (state = "reload_change")

\* C20 as stated: a reload request is never lost: the flag stays set until
\* the machine enters reload_change, a pending runlevel request is served
\* first, and when sm_step() keeps being called and svc_stop_completed()
\* eventually returns NULL the machine enters reload_change, calls
\* conf_reload(), passes reload_wait and returns to running; a reload
\* requested during reload_wait triggers a further reload.
C20_ReloadNeverLost ==
    ReloadClearedOnlyForReload /\ ReloadServed

\* C20, amended: the same, when requests for a runlevel do not keep arriving
\* for ever.
C20_ReloadServedOnceRequestsCease ==
    /\ ReloadClearedOnlyForReload
    /\ ([]<><<RunlevelRequest>>_vars) \/ ReloadServed

\* a reload is requested while a reload waits for a service to stop
C20_Witness ==
    /\ state = "reload_wait"
    /\ pc = "idle"
    /\ reload
    /\ stopping
    /\ Pos("conf_reload") # {}

\* the line the innermost parse_conf() reads next is an include of a file
\* that does not exist
AtMissingInclude ==
    /\ inc_pc = "run"
    /\ inc_stack # <<>>
    /\ IncTop.pos < Len(files[IncTop.file].lines)
    /\ files[IncTop.file].lines[IncTop.pos + 1].verb = "include"
    /\ ~files[files[IncTop.file].lines[IncTop.pos + 1].arg].exists

\* C21: parsing always terminates: for every root config and every set of
\* files reachable through include lines, a file that includes itself and two
\* files that include each other among them, parse_conf() returns after
\* finitely many steps; an include of a file that does not exist is skipped
\* and parsing continues with the next line.
C21_ParseTerminates ==
    /\ [][AtMissingInclude => (inc_stack' = IncAdvanced /\ inc_pc' = "run")]_vars
    /\ <>(inc_pc = "done")

\* C22: when the parse of the root config completes, global_rlimit is the OS
\* limits read once before its first line, changed by every valid rlimit line
\* of the root config and of the files it includes, in order (an rlimit line
\* before an include line is still in effect afterwards); that vector is
\* what setrlimit() applies and what seeds the scratch vector of each
\* drop-in, and an rlimit line of one drop-in changes neither global_rlimit
\* nor the vector handed to the entities of another drop-in.
C22_GlobalRlimitBaseline ==
    inc_pc = "done" =>
       /\ global_rlimit = want_rlimit
       /\ \A r \in DOMAIN global_rlimit :
             DigitsLeq(global_rlimit[r].rlim_cur, global_rlimit[r].rlim_max) =>
                os_rlimit[r] = global_rlimit[r]
       /\ handed[DropIn] \in
             {<<>>, <<[global_rlimit EXCEPT ![0].rlim_cur = RLIM_INFINITY]>>}
       /\ handed[DropIn2] \in {<<>>, <<global_rlimit>>}

====
